---- MODULE Spec2Model ----
(***************************************************************************)
(* A model of snowflake.py: the Snowflake value type (validation, parse,   *)
(* value) and the SnowflakeGenerator (construction and __next__).          *)
(*                                                                         *)
(* Python integers are unbounded; TLC's are 32 bits wide.  The field       *)
(* widths of the layout are therefore scaled: the source's 41/5/5/12 bits  *)
(* (timestamp/datacenter/instance/sequence) become TS_BITS/DC_BITS/        *)
(* INST_BITS/SEQ_BITS bits, and every constant and shift of the source is  *)
(* derived from the widths exactly as the source's literals are            *)
(* (MAX_SEQ = 2^12 - 1, shifts 12 = 12, 17 = 12 + 5, 22 = 12 + 5 + 5).     *)
(***************************************************************************)
EXTENDS Integers, Sequences, FiniteSets, TLC

\* ---------------------------------------------------------------- bounds

\* Width of the sequence field (12 in the source: MAX_SEQ = 0b111111111111).
SEQ_BITS == 2
\* Width of the instance field (5 in the source: MAX_INSTANCE = 0b11111).
INST_BITS == 2
\* Width of the datacenter field (5 in the source: MAX_DATACENTER = 0b11111).
DC_BITS == 2
\* Width of the timestamp field (41 in the source: MAX_TS is 41 ones).
TS_BITS == 2
\* Largest epoch a caller passes.
MaxEpoch == 2

\* ------------------------------------------------------------- constants

MAX_TS == 2^TS_BITS - 1
MAX_DATACENTER == 2^DC_BITS - 1
MAX_INSTANCE == 2^INST_BITS - 1
MAX_SEQ == 2^SEQ_BITS - 1

\* The shift literals of parse, value, __init__ and __next__ (12, 17, 22).
INST_SHIFT == SEQ_BITS
DC_SHIFT == SEQ_BITS + INST_BITS
TS_SHIFT == SEQ_BITS + INST_BITS + DC_BITS

\* --------------------------------------------- Python's integer operators

\* x << n
Shl(x, n) == x * 2^n

\* x >> n (arithmetic: rounds toward minus infinity, like \div)
Shr(x, n) == x \div 2^n

\* a | b on two's-complement integers of unbounded width
RECURSIVE BitOr(_, _)
BitOr(a, b) ==
    IF a = 0 THEN b
    ELSE IF b = 0 THEN a
    ELSE IF a = -1 \/ b = -1 THEN -1
    ELSE 2 * BitOr(a \div 2, b \div 2) + (IF a % 2 = 1 \/ b % 2 = 1 THEN 1 ELSE 0)

\* a & b on two's-complement integers of unbounded width
RECURSIVE BitAnd(_, _)
BitAnd(a, b) ==
    IF a = 0 \/ b = 0 THEN 0
    ELSE IF a = -1 THEN b
    ELSE IF b = -1 THEN a
    ELSE 2 * BitAnd(a \div 2, b \div 2) + (IF a % 2 = 1 /\ b % 2 = 1 THEN 1 ELSE 0)

\* ------------------------------------------------------------- Snowflake

\* A raised exception, as the value of the call that raised it.
Raise(kind, what) == [ok |-> FALSE, err |-> kind, what |-> what]

\* Snowflake as it would be with the timestamp's upper bound left unchecked.
Snowflake_tsUnbounded(timestamp, datacenter, instance, epoch, seq) ==
    IF epoch < 0 THEN Raise("ValueError", "epoch")
    ELSE IF ~(0 <= timestamp) THEN Raise("ValueError", "timestamp")
    ELSE IF ~(0 <= datacenter /\ datacenter <= MAX_DATACENTER) THEN Raise("ValueError", "datacenter")
    ELSE IF ~(0 <= instance /\ instance <= MAX_INSTANCE) THEN Raise("ValueError", "instance")
    ELSE IF ~(0 <= seq /\ seq <= MAX_SEQ) THEN Raise("ValueError", "seq")
    ELSE [ok |-> TRUE, timestamp |-> timestamp, datacenter |-> datacenter,
          instance |-> instance, epoch |-> epoch, seq |-> seq]

\* Snowflake as it would be with the sequence checked by < MAX_SEQ.
Snowflake_seqStrict(timestamp, datacenter, instance, epoch, seq) ==
    IF epoch < 0 THEN Raise("ValueError", "epoch")
    ELSE IF ~(0 <= timestamp /\ timestamp <= MAX_TS) THEN Raise("ValueError", "timestamp")
    ELSE IF ~(0 <= datacenter /\ datacenter <= MAX_DATACENTER) THEN Raise("ValueError", "datacenter")
    ELSE IF ~(0 <= instance /\ instance <= MAX_INSTANCE) THEN Raise("ValueError", "instance")
    ELSE IF ~(0 <= seq /\ seq < MAX_SEQ) THEN Raise("ValueError", "seq")
    ELSE [ok |-> TRUE, timestamp |-> timestamp, datacenter |-> datacenter,
          instance |-> instance, epoch |-> epoch, seq |-> seq]

\* Snowflake(timestamp, datacenter, instance, epoch, seq): the frozen
\* dataclass with __post_init__'s checks, in their order.
Snowflake(timestamp, datacenter, instance, epoch, seq) ==
    IF epoch < 0 THEN Raise("ValueError", "epoch")
    ELSE IF ~(0 <= timestamp /\ timestamp <= MAX_TS) THEN Raise("ValueError", "timestamp")
    ELSE IF ~(0 <= datacenter /\ datacenter <= MAX_DATACENTER) THEN Raise("ValueError", "datacenter")
    ELSE IF ~(0 <= instance /\ instance <= MAX_INSTANCE) THEN Raise("ValueError", "instance")
    ELSE IF ~(0 <= seq /\ seq <= MAX_SEQ) THEN Raise("ValueError", "seq")
    ELSE [ok |-> TRUE, timestamp |-> timestamp, datacenter |-> datacenter,
          instance |-> instance, epoch |-> epoch, seq |-> seq]

\* Snowflake.parse as it would be with the datacenter read at the instance's shift.
Snowflake_parse_dcAtInst(snowflake, epoch) ==
    Snowflake(Shr(snowflake, TS_SHIFT),
              BitAnd(Shr(snowflake, INST_SHIFT), MAX_DATACENTER),
              BitAnd(Shr(snowflake, INST_SHIFT), MAX_INSTANCE),
              epoch,
              BitAnd(snowflake, MAX_SEQ))

\* Snowflake.parse(snowflake, epoch)
Snowflake_parse(snowflake, epoch) ==
    Snowflake(Shr(snowflake, TS_SHIFT),
              BitAnd(Shr(snowflake, DC_SHIFT), MAX_DATACENTER),
              BitAnd(Shr(snowflake, INST_SHIFT), MAX_INSTANCE),
              epoch,
              BitAnd(snowflake, MAX_SEQ))

\* Snowflake.value as it would be with the sequence left out.
Snowflake_value_noSeq(self) ==
    BitOr(BitOr(Shl(self.timestamp, TS_SHIFT), Shl(self.datacenter, DC_SHIFT)),
          Shl(self.instance, INST_SHIFT))

\* Snowflake.value as it would be with the instance shifted like the datacenter.
Snowflake_value_instAtDc(self) ==
    BitOr(BitOr(BitOr(Shl(self.timestamp, TS_SHIFT), Shl(self.datacenter, DC_SHIFT)),
                Shl(self.instance, DC_SHIFT)),
          self.seq)

\* Snowflake.value
Snowflake_value(self) ==
    BitOr(BitOr(BitOr(Shl(self.timestamp, TS_SHIFT), Shl(self.datacenter, DC_SHIFT)),
                Shl(self.instance, INST_SHIFT)),
          self.seq)

\* Snowflake.milliseconds
Snowflake_milliseconds(self) == self.timestamp + self.epoch

\* ---------------------------------------------------- SnowflakeGenerator

\* An optional argument: <<>> is None, <<x>> is x.
None == <<>>

\* _inf as it would be with the datacenter shifted like the instance.
InstanceField_sameShift(datacenter, instance) ==
    BitOr(Shl(datacenter, INST_SHIFT), Shl(instance, INST_SHIFT))

\* (datacenter << 17) | (instance << 12), the _inf of __init__
InstanceField(datacenter, instance) ==
    BitOr(Shl(datacenter, DC_SHIFT), Shl(instance, INST_SHIFT))

\* The constructor without the check of lines 84-85.
SnowflakeGenerator_epochUnchecked(datacenter, instance, seq, epoch, timestamp, current) ==
    IF current - epoch >= MAX_TS THEN Raise("OverflowError", "")
    ELSE LET t == IF timestamp = None \/ timestamp = <<0>> THEN current ELSE timestamp[1]
         IN  IF t < 0 \/ t > current THEN Raise("ValueError", "timestamp")
             ELSE IF FALSE THEN Raise("ValueError", "epoch")
             ELSE IF datacenter < 0 \/ datacenter > MAX_DATACENTER
                  THEN Raise("ValueError", "datacenter")
             ELSE IF instance < 0 \/ instance > MAX_INSTANCE
                  THEN Raise("ValueError", "instance")
             ELSE IF seq < 0 \/ seq > MAX_SEQ THEN Raise("ValueError", "seq")
             ELSE [ok |-> TRUE, epoch |-> epoch, ts |-> t - epoch,
                   inf |-> InstanceField(datacenter, instance), seq |-> seq]

\* SnowflakeGenerator(datacenter, instance, seq=, epoch=, timestamp=) with the
\* clock reading current: the object built, or the exception raised.
\* "timestamp or current" takes current for None and for 0.
SnowflakeGenerator(datacenter, instance, seq, epoch, timestamp, current) ==
    IF current - epoch >= MAX_TS THEN Raise("OverflowError", "")
    ELSE LET t == IF timestamp = None \/ timestamp = <<0>> THEN current ELSE timestamp[1]
         IN  IF t < 0 \/ t > current THEN Raise("ValueError", "timestamp")
             ELSE IF epoch < 0 \/ epoch > current THEN Raise("ValueError", "epoch")
             ELSE IF datacenter < 0 \/ datacenter > MAX_DATACENTER
                  THEN Raise("ValueError", "datacenter")
             ELSE IF instance < 0 \/ instance > MAX_INSTANCE
                  THEN Raise("ValueError", "instance")
             ELSE IF seq < 0 \/ seq > MAX_SEQ THEN Raise("ValueError", "seq")
             ELSE [ok |-> TRUE, epoch |-> epoch, ts |-> t - epoch,
                   inf |-> InstanceField(datacenter, instance), seq |-> seq]

\* SnowflakeGenerator.from_snowflake(sf) with the clock reading current
SnowflakeGenerator_from_snowflake(snow, current) ==
    SnowflakeGenerator(snow.datacenter, snow.instance, snow.seq, snow.epoch,
                       <<snow.timestamp>>, current)

\* The outcomes of __next__: an identifier, None, or OverflowError raised.
Returned(v) == [kind |-> "id", val |-> v]
ReturnedNone == [kind |-> "None", val |-> 0]
Overflowed == [kind |-> "OverflowError", val |-> 0]

\* (self._ts << 22) | self._inf | self._seq
Pack(self) == BitOr(BitOr(Shl(self.ts, TS_SHIFT), self.inf), self.seq)

\* __next__ as it would be without the branch for a clock that moved backward.
SnowflakeGenerator_next_noBackward(self, now) ==
    LET current == now - self.epoch
    IN  IF current >= MAX_TS THEN [self |-> self, out |-> Overflowed]
        ELSE IF self.ts = current
        THEN IF self.seq = MAX_SEQ
             THEN [self |-> self, out |-> ReturnedNone]
             ELSE LET after == [self EXCEPT !.seq = self.seq + 1, !.ts = current]
                  IN  [self |-> after, out |-> Returned(Pack(after))]
        ELSE LET after == [self EXCEPT !.seq = 0, !.ts = current]
             IN  [self |-> after, out |-> Returned(Pack(after))]

\* __next__ as it would be with the sequence left as it is within a millisecond.
SnowflakeGenerator_next_noIncrement(self, now) ==
    LET current == now - self.epoch
    IN  IF current >= MAX_TS THEN [self |-> self, out |-> Overflowed]
        ELSE IF self.ts = current
        THEN IF self.seq = MAX_SEQ
             THEN [self |-> self, out |-> ReturnedNone]
             ELSE LET after == [self EXCEPT !.ts = current]
                  IN  [self |-> after, out |-> Returned(Pack(after))]
        ELSE IF self.ts > current
        THEN [self |-> self, out |-> ReturnedNone]
        ELSE LET after == [self EXCEPT !.seq = 0, !.ts = current]
             IN  [self |-> after, out |-> Returned(Pack(after))]

\* __next__ as it would be with the exhaustion test one sequence number late.
SnowflakeGenerator_next_lateExhaustion(self, now) ==
    LET current == now - self.epoch
    IN  IF current >= MAX_TS THEN [self |-> self, out |-> Overflowed]
        ELSE IF self.ts = current
        THEN IF self.seq = MAX_SEQ + 1
             THEN [self |-> self, out |-> ReturnedNone]
             ELSE LET after == [self EXCEPT !.seq = self.seq + 1, !.ts = current]
                  IN  [self |-> after, out |-> Returned(Pack(after))]
        ELSE IF self.ts > current
        THEN [self |-> self, out |-> ReturnedNone]
        ELSE LET after == [self EXCEPT !.seq = 0, !.ts = current]
             IN  [self |-> after, out |-> Returned(Pack(after))]

\* __next__ as it would be without the sequence reset on a new millisecond.
SnowflakeGenerator_next_noReset(self, now) ==
    LET current == now - self.epoch
    IN  IF current >= MAX_TS THEN [self |-> self, out |-> Overflowed]
        ELSE IF self.ts = current
        THEN IF self.seq = MAX_SEQ
             THEN [self |-> self, out |-> ReturnedNone]
             ELSE LET after == [self EXCEPT !.seq = self.seq + 1, !.ts = current]
                  IN  [self |-> after, out |-> Returned(Pack(after))]
        ELSE IF self.ts > current
        THEN [self |-> self, out |-> ReturnedNone]
        ELSE LET after == [self EXCEPT !.ts = current]
             IN  [self |-> after, out |-> Returned(Pack(after))]

\* __next__ following the clock backwards while it returns None.
SnowflakeGenerator_next_backwardMoves(self, now) ==
    LET current == now - self.epoch
    IN  IF current >= MAX_TS THEN [self |-> self, out |-> Overflowed]
        ELSE IF self.ts = current
        THEN IF self.seq = MAX_SEQ
             THEN [self |-> self, out |-> ReturnedNone]
             ELSE LET after == [self EXCEPT !.seq = self.seq + 1, !.ts = current]
                  IN  [self |-> after, out |-> Returned(Pack(after))]
        ELSE IF self.ts > current
        THEN [self |-> [self EXCEPT !.ts = current], out |-> ReturnedNone]
        ELSE LET after == [self EXCEPT !.seq = 0, !.ts = current]
             IN  [self |-> after, out |-> Returned(Pack(after))]

\* __next__ storing the reading before it raises OverflowError.
SnowflakeGenerator_next_overflowMoves(self, now) ==
    LET current == now - self.epoch
    IN  IF current >= MAX_TS THEN [self |-> [self EXCEPT !.ts = current], out |-> Overflowed]
        ELSE IF self.ts = current
        THEN IF self.seq = MAX_SEQ
             THEN [self |-> self, out |-> ReturnedNone]
             ELSE LET after == [self EXCEPT !.seq = self.seq + 1, !.ts = current]
                  IN  [self |-> after, out |-> Returned(Pack(after))]
        ELSE IF self.ts > current
        THEN [self |-> self, out |-> ReturnedNone]
        ELSE LET after == [self EXCEPT !.seq = 0, !.ts = current]
             IN  [self |-> after, out |-> Returned(Pack(after))]

\* __next__ raising OverflowError only above MAX_TS.
SnowflakeGenerator_next_overflowLate(self, now) ==
    LET current == now - self.epoch
    IN  IF current > MAX_TS THEN [self |-> self, out |-> Overflowed]
        ELSE IF self.ts = current
        THEN IF self.seq = MAX_SEQ
             THEN [self |-> self, out |-> ReturnedNone]
             ELSE LET after == [self EXCEPT !.seq = self.seq + 1, !.ts = current]
                  IN  [self |-> after, out |-> Returned(Pack(after))]
        ELSE IF self.ts > current
        THEN [self |-> self, out |-> ReturnedNone]
        ELSE LET after == [self EXCEPT !.seq = 0, !.ts = current]
             IN  [self |-> after, out |-> Returned(Pack(after))]

\* __next__ with the comparison of line 111 turned round.
SnowflakeGenerator_next_flipped(self, now) ==
    LET current == now - self.epoch
    IN  IF current >= MAX_TS THEN [self |-> self, out |-> Overflowed]
        ELSE IF self.ts = current
        THEN IF self.seq = MAX_SEQ
             THEN [self |-> self, out |-> ReturnedNone]
             ELSE LET after == [self EXCEPT !.seq = self.seq + 1, !.ts = current]
                  IN  [self |-> after, out |-> Returned(Pack(after))]
        ELSE IF self.ts < current
        THEN [self |-> self, out |-> ReturnedNone]
        ELSE LET after == [self EXCEPT !.seq = 0, !.ts = current]
             IN  [self |-> after, out |-> Returned(Pack(after))]

\* self.__next__() with the clock reading now: the object afterwards and the
\* outcome of the call.
SnowflakeGenerator_next(self, now) ==
    LET current == now - self.epoch
    IN  IF current >= MAX_TS THEN [self |-> self, out |-> Overflowed]
        ELSE IF self.ts = current
        THEN IF self.seq = MAX_SEQ
             THEN [self |-> self, out |-> ReturnedNone]
             ELSE LET after == [self EXCEPT !.seq = self.seq + 1, !.ts = current]
                  IN  [self |-> after, out |-> Returned(Pack(after))]
        ELSE IF self.ts > current
        THEN [self |-> self, out |-> ReturnedNone]
        ELSE LET after == [self EXCEPT !.seq = 0, !.ts = current]
             IN  [self |-> after, out |-> Returned(Pack(after))]

\* ------------------------------------------------------------------ state

VARIABLES
    inp,     \* the arguments of the Snowflake call under way
    sf,      \* the Snowflake it built, or the exception it raised
    enc,     \* <<sf.value>> once read, <<>> before
    back,    \* <<Snowflake.parse(sf.value, sf.epoch)>> once parsed back, <<>> before
    gens,    \* the SnowflakeGenerator objects (_epoch, _ts, _inf, _seq of each)
    ret,     \* the outcome of the last __next__ call
    run,     \* the calls made in a row under one clock reading, ending with the last
    called,  \* the generators whose __next__ has been called
    issued,  \* per generator, the identifiers it has returned (where recorded)
    top,     \* per generator, <<the largest identifier it has returned>>, <<>> if none
    clk,     \* the clock, where it is followed from call to call
    thr,     \* per thread, the place and the locals of its __next__ call
    overlap  \* whether a thread has run part of its call during another's

vars == <<inp, sf, enc, back, gens, ret, run, called, issued, top, clk, thr, overlap>>
sfVars == <<inp, sf, enc, back>>
histVars == <<run, called, issued, top>>
threadVars == <<thr, overlap>>
genVars == <<gens, ret, histVars, clk, threadVars>>

\* No thread is inside __next__: the calls are made one at a time.
NoThreads ==
    /\ thr = <<>>
    /\ overlap = FALSE

\* No object yet.
NoObject == [ok |-> FALSE, err |-> "unset", what |-> ""]

\* ---------------------------------------------- the Snowflake value type

\* A raw integer as wide as the words the identifiers are stored in: one bit
\* more than the layout uses (64 = 22 + 41 + 1 in the source's layout).
WORD_BITS == TS_SHIFT + TS_BITS + 1

\* The calls tried: the constructor on every field tuple around the bounds,
\* parse on every word and epoch.
SfInputs ==
    [kind : {"fields"}, timestamp : -1 .. MAX_TS + 1, datacenter : -1 .. MAX_DATACENTER + 1,
     instance : -1 .. MAX_INSTANCE + 1, epoch : -1 .. MaxEpoch, seq : -1 .. MAX_SEQ + 1]
    \cup [kind : {"raw"}, raw : 0 .. 2^WORD_BITS - 1, epoch : -1 .. MaxEpoch]

\* No generator exists while the value type is exercised.
GenIdle ==
    /\ gens = <<>>
    /\ ret = [kind |-> "nocall"]
    /\ run = [n |-> 0]
    /\ called = {}
    /\ issued = <<>>
    /\ top = <<>>
    /\ clk = 0
    /\ NoThreads

InitSf ==
    /\ inp \in SfInputs
    /\ sf = NoObject
    /\ enc = <<>>
    /\ back = <<>>
    /\ GenIdle

\* Snowflake(timestamp, datacenter, instance, epoch, seq)
SfConstruct ==
    /\ inp.kind = "fields"
    /\ sf = NoObject
    /\ sf' = Snowflake(inp.timestamp, inp.datacenter, inp.instance, inp.epoch, inp.seq)
    /\ UNCHANGED <<inp, enc, back, genVars>>

\* Snowflake.parse(raw, epoch)
SfParse ==
    /\ inp.kind = "raw"
    /\ sf = NoObject
    /\ sf' = Snowflake_parse(inp.raw, inp.epoch)
    /\ UNCHANGED <<inp, enc, back, genVars>>

\* sf.value
SfValue ==
    /\ sf.ok
    /\ enc = <<>>
    /\ enc' = <<Snowflake_value(sf)>>
    /\ UNCHANGED <<inp, sf, back, genVars>>

\* Snowflake.parse(sf.value, sf.epoch)
SfParseBack ==
    /\ enc # <<>>
    /\ back = <<>>
    /\ back' = <<Snowflake_parse(enc[1], sf.epoch)>>
    /\ UNCHANGED <<inp, sf, enc, genVars>>

NextSf == SfConstruct \/ SfParse \/ SfValue \/ SfParseBack

SpecSf == InitSf /\ [][NextSf]_vars

\* The field tuple of the constructor call is within every bound.
FieldsInBounds ==
    /\ 0 <= inp.timestamp /\ inp.timestamp <= MAX_TS
    /\ 0 <= inp.datacenter /\ inp.datacenter <= MAX_DATACENTER
    /\ 0 <= inp.instance /\ inp.instance <= MAX_INSTANCE
    /\ 0 <= inp.seq /\ inp.seq <= MAX_SEQ
    /\ 0 <= inp.epoch

\* C3: round trip. For every valid Snowflake i, Snowflake.parse(i.value,
\* i.epoch) succeeds and yields a Snowflake with the same timestamp,
\* datacenter, instance, seq and epoch.
C3_RoundTrip ==
    (inp.kind = "fields" /\ back # <<>>) =>
        /\ back[1].ok
        /\ back[1].timestamp = sf.timestamp
        /\ back[1].datacenter = sf.datacenter
        /\ back[1].instance = sf.instance
        /\ back[1].seq = sf.seq
        /\ back[1].epoch = sf.epoch

\* A Snowflake with every field at its upper bound and a positive epoch has
\* been encoded and parsed back.
C3_Witness ==
    /\ inp.kind = "fields"
    /\ back # <<>>
    /\ sf.timestamp = MAX_TS /\ sf.datacenter = MAX_DATACENTER
    /\ sf.instance = MAX_INSTANCE /\ sf.seq = MAX_SEQ /\ sf.epoch = MaxEpoch
    /\ back[1] = sf

C6_Bounds ==
    (inp.kind = "fields" /\ sf # NoObject) =>
        /\ sf.ok <=> FieldsInBounds
        /\ ~sf.ok => sf.err = "ValueError"
        /\ sf.ok => /\ sf.timestamp = inp.timestamp /\ sf.timestamp \in 0 .. MAX_TS
                     /\ sf.datacenter = inp.datacenter /\ sf.datacenter \in 0 .. MAX_DATACENTER
                     /\ sf.instance = inp.instance /\ sf.instance \in 0 .. MAX_INSTANCE
                     /\ sf.seq = inp.seq /\ sf.seq \in 0 .. MAX_SEQ
                     /\ sf.epoch = inp.epoch /\ sf.epoch >= 0

\* The constructor has rejected a tuple whose only fault is seq = MAX_SEQ + 1.
C6_Witness ==
    /\ inp.kind = "fields"
    /\ inp.timestamp = MAX_TS /\ inp.datacenter = MAX_DATACENTER
    /\ inp.instance = MAX_INSTANCE /\ inp.epoch = 0 /\ inp.seq = MAX_SEQ + 1
    /\ sf = Raise("ValueError", "seq")

\* C7: the value of a valid Snowflake is timestamp * 2^TS_SHIFT + datacenter
\* * 2^DC_SHIFT + instance * 2^INST_SHIFT + seq, the four fields lying in
\* disjoint bit ranges.
C7_Layout ==
    (sf.ok /\ enc # <<>>) =>
        /\ enc[1] = sf.timestamp * 2^TS_SHIFT + sf.datacenter * 2^DC_SHIFT
                     + sf.instance * 2^INST_SHIFT + sf.seq
        /\ enc[1] % 2^INST_SHIFT = sf.seq
        /\ (enc[1] \div 2^INST_SHIFT) % 2^INST_BITS = sf.instance
        /\ (enc[1] \div 2^DC_SHIFT) % 2^DC_BITS = sf.datacenter
        /\ enc[1] \div 2^TS_SHIFT = sf.timestamp

\* The example's fields (datacenter 1, instance 2, seq 3) have been encoded.
C7_Witness ==
    /\ inp.kind = "fields"
    /\ sf.ok
    /\ sf.timestamp = MAX_TS - 1 /\ sf.datacenter = 1 /\ sf.instance = 2 /\ sf.seq = 3
    /\ enc = <<Shl(MAX_TS - 1, TS_SHIFT) + Shl(1, DC_SHIFT) + Shl(2, INST_SHIFT) + 3>>


\* --------------------------------------------------------- the generator

\* The clock readings int(time() * 1000) takes: every millisecond up to one
\* past the last that any epoch leaves below MAX_TS.
MaxNow == MAX_TS + MaxEpoch + 1
Clock == 0 .. MaxNow

\* The datacenter and instance IDs generators are built with.
GenDatacenters == {0, MAX_DATACENTER}
GenInstances == {0, MAX_INSTANCE}

\* The generators construction yields: every accepted call of the
\* constructor, under every clock reading.
Constructed ==
    { g \in { SnowflakeGenerator(d, i, s, e, t, c) :
                  d \in GenDatacenters, i \in GenInstances, s \in 0 .. MAX_SEQ,
                  e \in 0 .. MaxEpoch, t \in {None} \cup { <<x>> : x \in Clock },
                  c \in Clock } : g.ok }

\* No Snowflake call is under way while generators run.
SfIdle ==
    /\ inp = [kind |-> "none"]
    /\ sf = NoObject
    /\ enc = <<>>
    /\ back = <<>>

Max(a, b) == IF a >= b THEN a ELSE b
Min(a, b) == IF a <= b THEN a ELSE b

\* next(gens[i]) under the clock reading now: the object is updated, ret
\* keeps the outcome, top the largest identifier the generator has returned.
Call(i, now) ==
    \E r \in {SnowflakeGenerator_next(gens[i], now)} :
        /\ gens' = [gens EXCEPT ![i] = r.self]
        /\ ret' = [kind |-> r.out.kind, val |-> r.out.val, gen |-> i]
        /\ top' = IF r.out.kind # "id" THEN top
                  ELSE [top EXCEPT ![i] = IF top[i] = <<>> THEN <<r.out.val>>
                                          ELSE <<Max(top[i][1], r.out.val)>>]

\* The bookkeeping of a call of generator i under the reading now: run keeps
\* the reading and the object before the call (pre), counts the calls made in
\* a row on this generator under this reading (n, up to MAX_SEQ + 3) and
\* those of them that returned an identifier (ids), keeps the outcome of the
\* call before (prev), and keeps the _ts and _seq the first call of the row
\* found and whether it was the generator's first call.
Track(i, now) ==
    /\ run' = IF run.n > 0 /\ ret.gen = i /\ run.now = now
              THEN [run EXCEPT !.n = Min(run.n + 1, MAX_SEQ + 3),
                               !.ids = IF ret'.kind = "id" THEN run.ids + 1 ELSE run.ids,
                               !.pre = gens[i], !.prev = ret]
              ELSE [n |-> 1, ids |-> IF ret'.kind = "id" THEN 1 ELSE 0, now |-> now,
                    pre |-> gens[i], prev |-> ret, ts0 |-> gens[i].ts, seq0 |-> gens[i].seq,
                    first |-> i \notin called]
    /\ called' = called \cup {i}

\* One generator, called one call at a time under any clock.
Init ==
    /\ SfIdle
    /\ gens \in { <<g>> : g \in Constructed }
    /\ ret = [kind |-> "nocall"]
    /\ run = [n |-> 0]
    /\ called = {}
    /\ issued = <<{}>>
    /\ top = <<<<>>>>
    /\ clk = 0
    /\ NoThreads

GenNext ==
    \E now \in Clock :
        /\ Call(1, now)
        /\ Track(1, now)
        /\ UNCHANGED <<sfVars, issued, clk, threadVars>>

Next == GenNext

Spec == Init /\ [][Next]_vars

\* The sequence portion (the low SEQ_BITS bits) and the timestamp portion
\* (the bits from TS_SHIFT up) of an identifier.
SeqPortion(v) == v % 2^SEQ_BITS
TsPortion(v) == v \div 2^TS_SHIFT

\* The reading of the last call relative to the generator's epoch.
Current == run.now - gens[1].epoch

\* The calls of the present row were made in a millisecond below MAX_TS that
\* the first of them found later than _ts (Advanced) or equal to it (Resumed).
Advanced == run.n >= 1 /\ Current < MAX_TS /\ run.ts0 < Current
Resumed == run.n >= 1 /\ Current < MAX_TS /\ run.ts0 = Current

\* C1: every identifier __next__ returns is strictly greater than every
\* identifier the generator returned before, under any clock.
C1_Increasing ==
    [][(ret'.kind = "id" /\ top[1] # <<>>) => ret'.val > top[1][1]]_vars

\* Several identifiers have been returned, the last under a reading that
\* followed a backward one.
C1_Witness ==
    /\ ret.kind = "id"
    /\ run.n = 1
    /\ run.prev.kind = "None"
    /\ top[1] = <<ret.val>>
    /\ run.pre.seq > 0

\* C8, as claimed: when the clock reports one millisecond for N <= MAX_SEQ + 1
\* calls in a row, each of them returns an identifier (read for a millisecond
\* the generator enters by a clock advance, and for the one a generator with
\* seq = 0 starts in).
C8_AsClaimed ==
    ((Advanced \/ (Resumed /\ run.first /\ run.seq0 = 0)) /\ run.n <= MAX_SEQ + 1) =>
        ret.kind = "id"

\* C8, amended: of the calls made in a row under one clock reading, each
\* that returns an identifier after one that did has the same timestamp
\* portion and a sequence portion greater by exactly 1; each of the first
\* N <= MAX_SEQ + 1 returns an identifier if the first finds _ts earlier
\* than the reading, and each of the first N <= MAX_SEQ - _seq if the first
\* finds _ts equal to it.
C8_SameMillisecond ==
    /\ (run.n >= 2 /\ ret.kind = "id") =>
           /\ run.prev.kind = "id"
           /\ SeqPortion(ret.val) = SeqPortion(run.prev.val) + 1
           /\ TsPortion(ret.val) = TsPortion(run.prev.val)
    /\ (Advanced /\ run.n <= MAX_SEQ + 1) => ret.kind = "id"
    /\ (Resumed /\ run.n <= MAX_SEQ - run.seq0) => ret.kind = "id"

\* MAX_SEQ + 1 calls in a row under one reading have each returned an
\* identifier, the last with the sequence portion MAX_SEQ.
C8_Witness ==
    /\ Advanced
    /\ run.n = MAX_SEQ + 1
    /\ run.ids = MAX_SEQ + 1
    /\ ret.kind = "id"
    /\ SeqPortion(ret.val) = MAX_SEQ
    /\ run.prev.kind = "id"

\* C9, as claimed: in any millisecond, the one a generator with seq = 0 was
\* built in included, the first MAX_SEQ + 1 calls return identifiers and
\* call MAX_SEQ + 2 is the first to return None.
C9_AsClaimed ==
    (Advanced \/ (Resumed /\ run.first /\ run.seq0 = 0)) =>
        /\ run.n <= MAX_SEQ + 1 => ret.kind = "id"
        /\ run.n >= MAX_SEQ + 2 => ret.kind = "None"

\* C9, amended: in a millisecond the generator enters by a clock advance the
\* first MAX_SEQ + 1 calls return the identifiers with sequence 0..MAX_SEQ
\* and call MAX_SEQ + 2 is the first to return None; in a millisecond the
\* generator is already in with _seq = s (the one a generator was built in
\* with seq = s included) only the first MAX_SEQ - s calls return
\* identifiers, with sequence s + 1..MAX_SEQ, and call MAX_SEQ - s + 1 is the
\* first to return None (call MAX_SEQ + 1 for the default seq = 0).
C9_Exhaustion ==
    /\ Advanced =>
           /\ run.n <= MAX_SEQ + 1 =>
                  ret.kind = "id" /\ run.ids = run.n /\ SeqPortion(ret.val) = run.n - 1
           /\ run.n >= MAX_SEQ + 2 => ret.kind = "None" /\ run.ids = MAX_SEQ + 1
    /\ Resumed =>
           /\ run.n <= MAX_SEQ - run.seq0 =>
                  ret.kind = "id" /\ run.ids = run.n
                  /\ SeqPortion(ret.val) = run.seq0 + run.n
           /\ run.n > MAX_SEQ - run.seq0 => ret.kind = "None" /\ run.ids = MAX_SEQ - run.seq0

\* A generator built with seq = 0 has been called MAX_SEQ + 1 times in the
\* millisecond of its _ts: MAX_SEQ identifiers, then None.
C9_Witness ==
    /\ Resumed
    /\ run.first
    /\ run.seq0 = 0
    /\ run.n = MAX_SEQ + 1
    /\ run.ids = MAX_SEQ
    /\ ret.kind = "None"
    /\ run.prev.kind = "id"

\* A generator has been called MAX_SEQ + 2 times in a millisecond it entered
\* by a clock advance: MAX_SEQ + 1 identifiers, then None.
C9_WitnessAdvanced ==
    /\ Advanced
    /\ run.n = MAX_SEQ + 2
    /\ run.ids = MAX_SEQ + 1
    /\ ret.kind = "None"
    /\ run.prev.kind = "id"

\* C10: a call under a reading with _ts < now - epoch < MAX_TS returns an
\* identifier with sequence portion 0 and timestamp portion now - epoch, and
\* leaves _ts = now - epoch and _seq = 0, whatever _seq was.
C10_Rollover ==
    (run.n >= 1 /\ run.pre.ts < Current /\ Current < MAX_TS) =>
        /\ ret.kind = "id"
        /\ SeqPortion(ret.val) = 0
        /\ TsPortion(ret.val) = Current
        /\ gens[1].ts = Current
        /\ gens[1].seq = 0

\* A generator with _seq = MAX_SEQ has been called in a later millisecond.
C10_Witness ==
    /\ run.n >= 1
    /\ run.pre.seq = MAX_SEQ
    /\ run.pre.ts < Current
    /\ Current = MAX_TS - 1
    /\ ret.kind = "id"

\* The last call read a clock behind the generator's _ts.
Backward == run.n >= 1 /\ Current < run.pre.ts

\* C11: a call whose reading, less the epoch, is below _ts returns None and
\* leaves _ts, _seq, _epoch and _inf as they were, so that the calls after it
\* start from the object the calls before it left.
C11_BackwardClock ==
    Backward =>
        /\ ret.kind = "None"
        /\ gens[1] = run.pre

\* The clock has gone backwards after an identifier was returned.
C11_Witness ==
    /\ Backward
    /\ run.prev.kind = "id"
    /\ ret.kind = "None"

\* C12: every identifier returned is an unsigned WORD_BITS-bit number,
\* 0 <= v < 2^WORD_BITS.
C12_AsClaimed ==
    ret.kind = "id" => (0 <= ret.val /\ ret.val < 2^WORD_BITS)

\* C13: every identifier returned parses under the generator's epoch, to the
\* generator's datacenter and instance, its _seq and _ts after the call, and
\* a milliseconds value equal to the clock reading of the call.
C13_AsClaimed ==
    ret.kind = "id" =>
        LET p == Snowflake_parse(ret.val, gens[1].epoch)
        IN  /\ p.ok
            /\ InstanceField(p.datacenter, p.instance) = gens[1].inf
            /\ p.seq = gens[1].seq
            /\ p.timestamp = gens[1].ts
            /\ Snowflake_milliseconds(p) = run.now

\* C16: __next__ raises OverflowError exactly when the reading less the
\* epoch is MAX_TS or more, and then leaves the object as it was; no
\* identifier returned has a timestamp portion of MAX_TS or more.
C16_Overflow ==
    run.n >= 1 =>
        /\ ret.kind = "OverflowError" <=> Current >= MAX_TS
        /\ ret.kind = "OverflowError" => gens[1] = run.pre
        /\ ret.kind = "id" => TsPortion(ret.val) < MAX_TS

\* A call at exactly epoch + MAX_TS has failed, after one that returned an
\* identifier.
C16_Witness ==
    /\ run.n >= 1
    /\ Current = MAX_TS
    /\ run.prev.kind = "id"
    /\ ret.kind = "OverflowError"

\* C17 as the claim has it: the call after one that raised OverflowError
\* raises OverflowError, whatever the clock reads.
C17_AsClaimed ==
    (run.n >= 1 /\ run.prev.kind = "OverflowError") => ret.kind = "OverflowError"

\* C17: the call after one that raised OverflowError raises it again, and
\* leaves the object alone, when its reading less the epoch is still MAX_TS
\* or more; under an earlier reading it does not raise.
C17_WhileClockStays ==
    (run.n >= 1 /\ run.prev.kind = "OverflowError") =>
        IF Current >= MAX_TS
        THEN ret.kind = "OverflowError" /\ gens[1] = run.pre
        ELSE ret.kind \in {"id", "None"}

\* Two calls in a row have raised OverflowError, under different readings.
C17_Witness ==
    /\ run.n = 1
    /\ run.prev.kind = "OverflowError"
    /\ ret.kind = "OverflowError"

\* An identifier has been returned after an OverflowError.
C17_WitnessEarlier ==
    /\ run.n >= 1
    /\ run.prev.kind = "OverflowError"
    /\ ret.kind = "id"

\* ------------------------------------------------------- two generators

\* The identifiers whose return is recorded in issued.
MaxIssued == 2

\* The start sequences and epochs of the two generators.
TwoSeqs == {0, MAX_SEQ - 1}
TwoEpochs == {0, MaxEpoch}

\* Two generators built with different (datacenter, instance) pairs, each
\* with its own epoch and start sequence, each built in the first
\* millisecond of its epoch or in the last one below MAX_TS.
InitTwo ==
    /\ SfIdle
    /\ \E d1 \in GenDatacenters, i1 \in GenInstances,
          d2 \in GenDatacenters, i2 \in GenInstances :
          /\ <<d1, i1>> # <<d2, i2>>
          /\ \E e1 \in TwoEpochs, e2 \in TwoEpochs, s1 \in TwoSeqs, s2 \in TwoSeqs :
              \E c1 \in {e1, e1 + MAX_TS - 1}, c2 \in {e2, e2 + MAX_TS - 1} :
                 \E a \in {SnowflakeGenerator(d1, i1, s1, e1, None, c1)},
                    b \in {SnowflakeGenerator(d2, i2, s2, e2, None, c2)} :
                     /\ a.ok /\ b.ok
                     /\ gens = <<a, b>>
    /\ ret = [kind |-> "nocall"]
    /\ run = [n |-> 0]
    /\ called = {}
    /\ issued = <<{}, {}>>
    /\ top = <<<<>>, <<>>>>
    /\ clk = 0
    /\ NoThreads

\* The calls of the two generators interleave in any order, each under any
\* clock reading; each returned identifier is recorded.
NextTwo ==
    \E i \in {1, 2}, now \in Clock :
        /\ Cardinality(issued[1]) + Cardinality(issued[2]) < MaxIssued
        /\ Call(i, now)
        /\ issued' = IF ret'.kind = "id" THEN [issued EXCEPT ![i] = @ \cup {ret'.val}]
                     ELSE issued
        /\ UNCHANGED <<sfVars, run, called, clk, threadVars>>

SpecTwo == InitTwo /\ [][NextTwo]_vars

\* C2: two generators built with different (datacenter, instance) pairs never
\* return the same identifier, whatever their epochs, start sequences and
\* clock readings and however their calls interleave.
C2_Disjoint == issued[1] \cap issued[2] = {}

\* Generators with different epochs have returned identifiers with the same
\* timestamp and sequence portions.
C2_Witness ==
    /\ gens[1].epoch # gens[2].epoch
    /\ \E x \in issued[1], y \in issued[2] :
          /\ TsPortion(x) = TsPortion(y)
          /\ SeqPortion(x) = SeqPortion(y)

\* ------------------------------------------------------------ construction

\* The argument tuples SnowflakeGenerator(...) is called with, and the clock
\* reading it samples: every field from below its range to above it.
GenInputs ==
    [kind : {"SnowflakeGenerator"},
     datacenter : {-1, 0, MAX_DATACENTER, MAX_DATACENTER + 1},
     instance : {-1, 0, MAX_INSTANCE, MAX_INSTANCE + 1},
     seq : -1 .. MAX_SEQ + 1,
     epoch : -1 .. MaxEpoch + 1,
     timestamp : {None} \cup { <<x>> : x \in -1 .. MaxNow + 1 },
     current : Clock]

InitNew ==
    /\ inp \in GenInputs
    /\ sf = NoObject
    /\ enc = <<>>
    /\ back = <<>>
    /\ GenIdle

\* SnowflakeGenerator(datacenter, instance, seq=, epoch=, timestamp=): the
\* object if __init__ returns, the exception it raises otherwise.
GenConstruct ==
    /\ inp.kind = "SnowflakeGenerator"
    /\ ret.kind = "nocall"
    /\ \E r \in {SnowflakeGenerator(inp.datacenter, inp.instance, inp.seq, inp.epoch,
                                      inp.timestamp, inp.current)} :
           IF r.ok
           THEN gens' = <<r>> /\ ret' = [kind |-> "constructed", what |-> ""]
           ELSE gens' = gens /\ ret' = [kind |-> r.err, what |-> r.what]
    /\ UNCHANGED <<sfVars, histVars, clk, threadVars>>

NextNew == GenConstruct

SpecNew == InitNew /\ [][NextNew]_vars

\* The start timestamp the caller asked for: the one supplied, the sampled
\* time if none was supplied.
Asked == IF inp.timestamp = None THEN inp.current ELSE inp.timestamp[1]

\* C14: an accepted construction leaves _ts = timestamp - epoch, _seq = seq
\* and _inf = (datacenter << DC_SHIFT) | (instance << INST_SHIFT), timestamp
\* being the supplied one whenever one is supplied, 0 included.
C14_AsClaimed ==
    ret.kind = "constructed" =>
        /\ gens[1].ts = Asked - inp.epoch
        /\ gens[1].seq = inp.seq
        /\ gens[1].inf = BitOr(Shl(inp.datacenter, DC_SHIFT), Shl(inp.instance, INST_SHIFT))

\* Some argument is outside the range the constructor allows.
OutOfRange ==
    \/ inp.timestamp # None /\ (inp.timestamp[1] < 0 \/ inp.timestamp[1] > inp.current)
    \/ inp.epoch < 0 \/ inp.epoch > inp.current
    \/ inp.datacenter < 0 \/ inp.datacenter > MAX_DATACENTER
    \/ inp.instance < 0 \/ inp.instance > MAX_INSTANCE
    \/ inp.seq < 0 \/ inp.seq > MAX_SEQ

\* The timestamp range is used up at the sampled time.
Exhausted == inp.current - inp.epoch >= MAX_TS

\* C15 as the claim has it: every out-of-range tuple is refused with
\* ValueError and creates no generator, and a construction that succeeds
\* had no argument out of range and current - epoch < MAX_TS.
C15_AsClaimed ==
    /\ (ret.kind # "nocall" /\ OutOfRange) => (ret.kind = "ValueError" /\ gens = <<>>)
    /\ ret.kind = "constructed" => (~OutOfRange /\ ~Exhausted)

\* C15: a construction is refused with OverflowError when current - epoch >=
\* MAX_TS, whatever the other arguments; otherwise with ValueError when an
\* argument is out of range; it succeeds in every other case, and a refused
\* construction creates no generator.
C15_Refusals ==
    ret.kind # "nocall" =>
        /\ ret.kind = (IF Exhausted THEN "OverflowError"
                       ELSE IF OutOfRange THEN "ValueError" ELSE "constructed")
        /\ ret.kind # "constructed" => gens = <<>>
        /\ ret.kind = "constructed" => gens # <<>>

\* A negative epoch alone has been refused with ValueError.
C15_Witness ==
    /\ ret.kind = "ValueError"
    /\ ret.what = "epoch"
    /\ inp.epoch < 0
    /\ ~Exhausted
    /\ gens = <<>>

\* An out-of-range datacenter has been refused with OverflowError.
C15_WitnessOverflow ==
    /\ ret.kind = "OverflowError"
    /\ inp.datacenter > MAX_DATACENTER
    /\ gens = <<>>

\* ------------------------------------------------------------ from_snowflake

\* The valid Snowflake fields a generator is rebuilt from, and the clock
\* reading its constructor samples.
FromInputs ==
    [kind : {"fields"}, timestamp : 0 .. MAX_TS, datacenter : GenDatacenters,
     instance : GenInstances, epoch : 0 .. MaxEpoch, seq : 0 .. MAX_SEQ,
     current : Clock]

InitFrom ==
    /\ inp \in FromInputs
    /\ sf = NoObject
    /\ enc = <<>>
    /\ back = <<>>
    /\ GenIdle

\* SnowflakeGenerator.from_snowflake(sf)
FromSnowflake ==
    /\ sf.ok
    /\ "current" \in DOMAIN inp
    /\ gens = <<>>
    /\ ret.kind = "nocall"
    /\ \E r \in {SnowflakeGenerator_from_snowflake(sf, inp.current)} :
           IF r.ok
           THEN /\ gens' = <<r>>
                /\ ret' = [kind |-> "constructed", what |-> ""]
                /\ issued' = <<{}>>
                /\ top' = <<<<>>>>
           ELSE /\ gens' = gens
                /\ ret' = [kind |-> r.err, what |-> r.what]
                /\ UNCHANGED <<issued, top>>
    /\ UNCHANGED <<sfVars, run, called, clk, threadVars>>

\* next(g) on the rebuilt generator, under any clock reading.
FromNext ==
    /\ gens # <<>>
    /\ \E now \in Clock : Call(1, now)
    /\ UNCHANGED <<sfVars, run, called, issued, clk, threadVars>>

NextFrom == SfConstruct \/ FromSnowflake \/ FromNext

SpecFrom == InitFrom /\ [][NextFrom]_vars

\* C20: every identifier returned by a generator built by from_snowflake(sf)
\* is greater than sf.value, whatever sf's epoch.
C20_AsClaimed ==
    (sf.ok /\ gens # <<>> /\ ret.kind = "id") => ret.val > Snowflake_value(sf)

\* ------------------------------------------------------- a retrying caller

\* The last reading under which __next__ does not raise OverflowError.
LastReading(self) == self.epoch + MAX_TS - 1

\* A generator and a clock that may stand behind the generator's _ts (it has
\* been set back) but is within the timestamp range.
InitRetry ==
    /\ SfIdle
    /\ gens \in { <<g>> : g \in { h \in Constructed : h.inf = InstanceField(MAX_DATACENTER, 0) } }
    /\ clk \in { c \in Clock : c <= LastReading(gens[1]) }
    /\ ret = [kind |-> "nocall"]
    /\ run = [n |-> 0]
    /\ called = {}
    /\ issued = <<{}>>
    /\ top = <<<<>>>>
    /\ NoThreads

\* The clock advances by a millisecond, within the timestamp range.
Tick ==
    /\ clk < LastReading(gens[1])
    /\ clk' = clk + 1
    /\ UNCHANGED <<sfVars, gens, ret, histVars, threadVars>>

\* The record of one call: its reading, the object it found and the outcome
\* of the call before it.
Note(i, now) ==
    /\ run' = [n |-> 1, now |-> now, pre |-> gens[i], prev |-> ret]
    /\ called' = called \cup {i}

\* The caller calls next(g) again.
Retry ==
    /\ Call(1, clk)
    /\ Note(1, clk)
    /\ UNCHANGED <<sfVars, issued, clk, threadVars>>

NextRetry == Tick \/ Retry

\* The clock keeps advancing and the caller keeps calling.
SpecRetry == InitRetry /\ [][NextRetry]_vars /\ WF_vars(Tick) /\ WF_vars(Retry)

\* The generator has issued the last identifier of its timestamp range.
LastIssued == gens[1].ts = MAX_TS - 1 /\ gens[1].seq = MAX_SEQ

\* C19: None is returned only when the reading less the epoch equals _ts with
\* _seq = MAX_SEQ, or is below _ts; a call at a reading above _ts returns an
\* identifier; and under an advancing clock a None is followed by an
\* identifier, unless the timestamp range has no identifier left.
C19_Recoverable ==
    /\ [](run.n >= 1 /\ ret.kind = "None" =>
              \/ Current = run.pre.ts /\ run.pre.seq = MAX_SEQ
              \/ Current < run.pre.ts)
    /\ [](run.n >= 1 /\ run.pre.ts < Current => ret.kind = "id")
    /\ (ret.kind = "None" ~> (ret.kind = "id" \/ LastIssued))

\* A retry has returned an identifier after the clock moved past _ts.
C19_Witness ==
    /\ run.n >= 1
    /\ run.prev.kind = "None"
    /\ run.pre.seq = MAX_SEQ
    /\ run.pre.ts < Current
    /\ ret.kind = "id"

\* ------------------------------------------------- two threads, one object

\* The threads that call next(g) on the one generator, once each.
Threads == {1, 2}

\* A thread before its call: no locals, no outcome.
Outside == [pc |-> "call", current |-> 0, tmp |-> 0, out |-> [kind |-> "none", val |-> 0]]

\* A thread after its call, with the outcome of the call.
Left(out) == [pc |-> "done", current |-> 0, tmp |-> 0, out |-> out]

\* Lines 104-107, which touch nothing another thread writes: the local
\* current is set from the clock reading now and tested against MAX_TS.
Enter(self, th, now) ==
    LET current == now - self.epoch
    IN  IF current >= MAX_TS THEN Left(Overflowed)
        ELSE [th EXCEPT !.pc = "eq", !.current = current]

\* One step of __next__ with line 110 storing what it loaded.
Step_noIncrement(self, th) ==
    CASE th.pc = "eq" ->
            [self |-> self,
             th |-> [th EXCEPT !.pc = IF self.ts = th.current THEN "full" ELSE "gt"]]
      [] th.pc = "full" ->
            [self |-> self,
             th |-> IF self.seq = MAX_SEQ THEN Left(ReturnedNone) ELSE [th EXCEPT !.pc = "load"]]
      [] th.pc = "load" ->
            [self |-> self, th |-> [th EXCEPT !.pc = "store", !.tmp = self.seq]]
      [] th.pc = "store" ->
            [self |-> [self EXCEPT !.seq = th.tmp],
             th |-> [th EXCEPT !.pc = "setts", !.tmp = 0]]
      [] th.pc = "gt" ->
            [self |-> self,
             th |-> IF self.ts > th.current THEN Left(ReturnedNone) ELSE [th EXCEPT !.pc = "reset"]]
      [] th.pc = "reset" ->
            [self |-> [self EXCEPT !.seq = 0], th |-> [th EXCEPT !.pc = "setts"]]
      [] th.pc = "setts" ->
            [self |-> [self EXCEPT !.ts = th.current], th |-> [th EXCEPT !.pc = "pack"]]
      [] th.pc = "pack" ->
            [self |-> self, th |-> Left(Returned(Pack(self)))]

\* One step of __next__ from line 108 on, in a thread whose locals are th:
\* each step reads or writes the attributes of self once, as the statement
\* it belongs to does.
\*   eq     line 108, self._ts == current
\*   full   line 109, self._seq == MAX_SEQ
\*   load   line 110, the read of self._seq += 1
\*   store  line 110, the write of self._seq += 1
\*   gt     line 111, self._ts > current
\*   reset  line 112, self._seq = 0
\*   setts  line 114, self._ts = current
\*   pack   line 116, the return value
Step(self, th) ==
    CASE th.pc = "eq" ->
            [self |-> self,
             th |-> [th EXCEPT !.pc = IF self.ts = th.current THEN "full" ELSE "gt"]]
      [] th.pc = "full" ->
            [self |-> self,
             th |-> IF self.seq = MAX_SEQ THEN Left(ReturnedNone) ELSE [th EXCEPT !.pc = "load"]]
      [] th.pc = "load" ->
            [self |-> self, th |-> [th EXCEPT !.pc = "store", !.tmp = self.seq]]
      [] th.pc = "store" ->
            [self |-> [self EXCEPT !.seq = th.tmp + 1],
             th |-> [th EXCEPT !.pc = "setts", !.tmp = 0]]
      [] th.pc = "gt" ->
            [self |-> self,
             th |-> IF self.ts > th.current THEN Left(ReturnedNone) ELSE [th EXCEPT !.pc = "reset"]]
      [] th.pc = "reset" ->
            [self |-> [self EXCEPT !.seq = 0], th |-> [th EXCEPT !.pc = "setts"]]
      [] th.pc = "setts" ->
            [self |-> [self EXCEPT !.ts = th.current], th |-> [th EXCEPT !.pc = "pack"]]
      [] th.pc = "pack" ->
            [self |-> self, th |-> Left(Returned(Pack(self)))]

\* Thread t is between the first and the last step of its call.
Inside(t) == thr[t].pc \notin {"call", "done"}

InitConc ==
    /\ SfIdle
    /\ gens \in { <<g>> : g \in { h \in Constructed : h.inf = InstanceField(MAX_DATACENTER, 0) } }
    /\ ret = [kind |-> "nocall"]
    /\ run = [n |-> 0]
    /\ called = {}
    /\ issued = <<{}>>
    /\ top = <<<<>>>>
    /\ clk = 0
    /\ thr = [t \in Threads |-> Outside]
    /\ overlap = FALSE

\* Thread t calls next(g) and reads the clock.
ThreadEnter(t) ==
    /\ thr[t].pc = "call"
    /\ \E now \in Clock : thr' = [thr EXCEPT ![t] = Enter(gens[1], thr[t], now)]
    /\ overlap' = (overlap \/ \E u \in Threads \ {t} : Inside(u))
    /\ UNCHANGED <<sfVars, gens, ret, histVars, clk>>

\* Thread t runs the next step of its call.
ThreadStep(t) ==
    /\ Inside(t)
    /\ \E r \in {Step(gens[1], thr[t])} :
           /\ gens' = <<r.self>>
           /\ thr' = [thr EXCEPT ![t] = r.th]
    /\ overlap' = (overlap \/ \E u \in Threads \ {t} : Inside(u))
    /\ UNCHANGED <<sfVars, ret, histVars, clk>>

NextConc == \E t \in Threads : ThreadEnter(t) \/ ThreadStep(t)

SpecConc == InitConc /\ [][NextConc]_vars

\* Both calls have returned, and returned the same identifier.
Duplicate ==
    /\ \A t \in Threads : thr[t].pc = "done" /\ thr[t].out.kind = "id"
    /\ thr[1].out.val = thr[2].out.val

\* C18: two calls on one generator return the same identifier only if their
\* steps were interleaved; calls that each ran from first step to last with
\* no step of the other in between return different identifiers.
C18_OnlyInterleaved == Duplicate => overlap

\* Two interleaved calls have returned the same identifier.
C18_Witness == Duplicate /\ overlap

====
